---- MODULE Spec2Model ----
(***************************************************************************)
(* Petty-cash ledger canister (src/icp_rust_boilerplate_backend/src/lib.rs)*)
(*                                                                         *)
(* State: the three stable regions ID_COUNTER, PETTY_CASH_STORAGE and      *)
(* BALANCE, the canister clock, and the last request with its response.    *)
(* Each canister method is one action: the host runs a message to          *)
(* completion before the next one starts.                                  *)
(* `writes` lists the stable regions the last request wrote, in the order  *)
(* of the writes in its handler.                                           *)
(*                                                                         *)
(* Amounts and the balance are f64.  They are modelled on a sub-domain of  *)
(* f64 that is closed under the operations the bounds allow and on which   *)
(* the model computes exactly what IEEE-754 computes: small integers       *)
(* (exactly representable, sums far below 2^53 are exact), +inf, -inf and  *)
(* NaN.                                                                    *)
(***************************************************************************)
EXTENDS Integers, Sequences, FiniteSets, TLC

VARIABLES idCounter, storage, balance, now, lastOp, result, writes

vars == <<idCounter, storage, balance, now, lastOp, result, writes>>
ledger == <<idCounter, storage, balance>>

(* ------------------------------ bounds --------------------------------- *)
\* number of add_entry calls that may succeed (ID_COUNTER is a u64)
MaxAdds == 2
\* last value of the canister clock
MaxTime == 1

(* ------------------------------- f64 ----------------------------------- *)
Fin(n) == [k |-> "fin", v |-> n]
PosInf == [k |-> "inf", v |-> 1]
NegInf == [k |-> "inf", v |-> -1]
NaN == [k |-> "nan", v |-> 0]
Zero == Fin(0)

\* unary minus: flips the sign, NaN stays NaN
FNeg(a) == IF a.k = "nan" THEN a ELSE [k |-> a.k, v |-> -a.v]

\* a + b: NaN is absorbing, inf + (-inf) = NaN, inf + finite = inf
FAdd(a, b) ==
  IF a.k = "nan" \/ b.k = "nan" THEN NaN
  ELSE IF a.k = "inf" THEN (IF b.k = "inf" /\ b.v # a.v THEN NaN ELSE a)
  ELSE IF b.k = "inf" THEN b
  ELSE Fin(a.v + b.v)

\* a < b: false as soon as one side is NaN
FLt(a, b) ==
  /\ a.k # "nan"
  /\ b.k # "nan"
  /\ \/ a.k = "fin" /\ b.k = "fin" /\ a.v < b.v
     \/ a.k = "inf" /\ a.v = -1 /\ b # a
     \/ b.k = "inf" /\ b.v = 1 /\ a # b

\* a <= b: false as soon as one side is NaN
FLe(a, b) == FLt(a, b) \/ (a.k # "nan" /\ a = b)

(* ------------------------------ inputs --------------------------------- *)
None == <<>>
Some(x) == <<x>>

Amounts == {Fin(-1), Zero, Fin(1), Fin(2), PosInf, NaN}
TransactionType == {"Debit", "Credit"}
\* the free-text part of a payload
Lunch ==
  [description |-> "lunch", category |-> "food",
   receipt_url |-> None, approved_by |-> None]
Taxi ==
  [description |-> "taxi", category |-> "travel",
   receipt_url |-> Some("r"), approved_by |-> Some("boss")]

Payloads(texts, amounts) ==
  { [description |-> t.description, amount |-> a, entry_type |-> ty,
     category |-> t.category, receipt_url |-> t.receipt_url,
     approved_by |-> t.approved_by] : t \in texts, a \in amounts, ty \in TransactionType }

\* requests of Spec: every kind of amount, one text
EntryPayload == Payloads({Lunch}, Amounts)
\* requests of SpecClock: both texts, each with its own amount
ClockPayload == Payloads({Lunch}, {Fin(1)}) \cup Payloads({Taxi}, {Fin(2)})

\* requests of SpecScenario: the amounts of the worked example, one text
ScenarioPayload == Payloads({Lunch}, {Fin(30), Fin(50), Fin(100), Fin(1000)})

Ids == 0..MaxAdds
\* start_date and end_date of a range query
Times == 0..MaxTime

(* ----------------------------- responses ------------------------------- *)
Ok(x) == [status |-> "Ok", err |-> "", val |-> <<x>>]
Err(e) == [status |-> "Err", err |-> e, val |-> <<>>]
NoResult == [status |-> "None", err |-> "", val |-> <<>>]
\* the response of a method that returns a plain value
Value(x) == [status |-> "Value", err |-> "", val |-> <<x>>]
Request(op, args) == [op |-> op, args |-> args]

(* ------------------------------ helpers -------------------------------- *)
\* slip: receipt_url is left out of the encoding
to_bytes_drop_receipt(entry) ==
  <<entry.id, entry.date, entry.description, entry.amount, entry.entry_type,
    entry.category, None, entry.approved_by, entry.created_at,
    entry.updated_at>>

\* Storable::to_bytes: the Candid encoding, one item per field
to_bytes(entry) ==
  <<entry.id, entry.date, entry.description, entry.amount, entry.entry_type,
    entry.category, entry.receipt_url, entry.approved_by, entry.created_at,
    entry.updated_at>>

\* Storable::from_bytes: the Candid decoding
from_bytes(bytes) ==
  [id |-> bytes[1], date |-> bytes[2], description |-> bytes[3],
   amount |-> bytes[4], entry_type |-> bytes[5], category |-> bytes[6],
   receipt_url |-> bytes[7], approved_by |-> bytes[8],
   created_at |-> bytes[9], updated_at |-> bytes[10]]

\* StableBTreeMap::insert(entry.id, entry); the map keeps the encoded entry,
\* held here as the value every later read decodes
do_insert(s, entry) ==
  [k \in (DOMAIN s) \cup {entry.id} |->
     IF k = entry.id THEN from_bytes(to_bytes(entry)) ELSE s[k]]

\* StableBTreeMap::remove(id)
Remove(s, id) == [k \in (DOMAIN s) \ {id} |-> s[k]]

\* StableBTreeMap::get(id)
_get_entry(s, id) == IF id \in DOMAIN s THEN Some(s[id]) ELSE None

\* slip: the incremented value is taken as the id
IssuedIdNew(counter) == counter + 1

\* slip: the end of the range is left out
InRangeOpenEnd(entry, start_date, end_date) ==
  entry.date >= start_date /\ entry.date < end_date

\* get_entries_by_date_range: the filter
InRange(entry, start_date, end_date) ==
  entry.date >= start_date /\ entry.date <= end_date

RECURSIVE Scan(_, _, _, _)
\* get_entries_by_date_range: iter() in key order over the keys K, filtered
Scan(s, K, start_date, end_date) ==
  IF K = {} THEN <<>>
  ELSE LET k == CHOOSE x \in K : \A y \in K : x <= y
       IN (IF InRange(s[k], start_date, end_date) THEN <<s[k]>> ELSE <<>>)
          \o Scan(s, K \ {k}, start_date, end_date)

\* get_entry: the response for id on store s
get_entry_result(s, id) ==
  IF _get_entry(s, id) = None THEN Err("NotFound") ELSE Ok(_get_entry(s, id)[1])

\* ID_COUNTER: Cell::set hands back the value it replaces, which becomes the id
IssuedId(counter) == counter

\* slip: the counter is written back without the increment
AdvanceStuck(counter) == counter

\* ID_COUNTER: the value written back
Advance(counter) == counter + 1

\* the NotFound response of update_entry, delete_entry and get_entry
NotFound == Err("NotFound")

\* slip: `<` for `<=`, a zero amount passes
InvalidAmountStrict(payload) == FLt(payload.amount, Zero)

\* add_entry: the amount test
InvalidAmount(payload) == FLe(payload.amount, Zero)

\* add_entry: the funds test of a Debit
AddInsufficient(bal, payload) ==
  payload.entry_type = "Debit" /\ FLt(bal, payload.amount)

\* signed effect of a (type, amount) on the balance
BalanceChange(ty, amount) == IF ty = "Credit" THEN amount ELSE FNeg(amount)

\* slip: the entry's own effect instead of its reversal
ReverseChangeSameSign(entry) ==
  IF entry.entry_type = "Credit" THEN entry.amount ELSE FNeg(entry.amount)

\* the effect that undoes a stored entry
ReverseChange(entry) ==
  IF entry.entry_type = "Credit" THEN FNeg(entry.amount) ELSE entry.amount

\* slip: the old entry's effect is not reversed
NewBalanceNoReverse(bal, entry, payload) ==
  FAdd(bal, BalanceChange(payload.entry_type, payload.amount))

\* update_entry: the candidate balance, summed left to right
NewBalance(bal, entry, payload) ==
  FAdd(FAdd(bal, ReverseChange(entry)),
       BalanceChange(payload.entry_type, payload.amount))

\* update_entry: the funds test
UpdateInsufficient(new_balance) == FLt(new_balance, Zero)

\* the entry add_entry builds
NewEntry(id, payload, t) ==
  [id |-> id, date |-> t, description |-> payload.description,
   amount |-> payload.amount, entry_type |-> payload.entry_type,
   category |-> payload.category, receipt_url |-> payload.receipt_url,
   approved_by |-> payload.approved_by, created_at |-> t, updated_at |-> None]

\* slip: the creation stamp is refreshed as well
UpdatedEntryRestamped(entry, payload, t) ==
  [entry EXCEPT !.description = payload.description,
                !.amount = payload.amount,
                !.entry_type = payload.entry_type,
                !.category = payload.category,
                !.receipt_url = payload.receipt_url,
                !.approved_by = payload.approved_by,
                !.created_at = t,
                !.updated_at = Some(t)]

\* the entry update_entry writes back
UpdatedEntry(entry, payload, t) ==
  [entry EXCEPT !.description = payload.description,
                !.amount = payload.amount,
                !.entry_type = payload.entry_type,
                !.category = payload.category,
                !.receipt_url = payload.receipt_url,
                !.approved_by = payload.approved_by,
                !.updated_at = Some(t)]

\* add_entry: ID_COUNTER.set, then BALANCE.set, then do_insert
add_entry_writes == <<"ID_COUNTER", "BALANCE", "PETTY_CASH_STORAGE">>

\* slip: the entry is written before the balance
update_entry_writes_swapped == <<"PETTY_CASH_STORAGE", "BALANCE">>

\* update_entry: BALANCE.set, then do_insert
update_entry_writes == <<"BALANCE", "PETTY_CASH_STORAGE">>

\* delete_entry: remove, then BALANCE.set
delete_entry_writes == <<"PETTY_CASH_STORAGE", "BALANCE">>

(* ------------------------------- state --------------------------------- *)
Init ==
  /\ idCounter = 0
  /\ storage = <<>>
  /\ balance = Zero
  /\ now = 0
  /\ lastOp = Request("init", <<>>)
  /\ result = NoResult
  /\ writes = <<>>

(* ------------------------------ actions -------------------------------- *)
add_entry(payload) ==
  /\ lastOp' = Request("add_entry", <<payload>>)
  /\ IF InvalidAmount(payload)
     THEN /\ result' = Err("InvalidAmount")
          /\ UNCHANGED <<ledger, now>>
     ELSE IF AddInsufficient(balance, payload)
     THEN /\ result' = Err("InsufficientFunds")
          /\ UNCHANGED <<ledger, now>>
     ELSE /\ idCounter < MaxAdds
          /\ idCounter' = Advance(idCounter)
          /\ balance' = FAdd(balance, BalanceChange(payload.entry_type, payload.amount))
          /\ storage' = do_insert(storage, NewEntry(IssuedId(idCounter), payload, now))
          /\ result' = Ok(NewEntry(IssuedId(idCounter), payload, now))
          /\ UNCHANGED now
  /\ writes' = IF result'.status = "Ok" THEN add_entry_writes ELSE <<>>

\* slip: a missing id is written as a new entry (do_insert is an upsert)
update_entry_upsert(id, payload) ==
  /\ lastOp' = Request("update_entry", <<id, payload>>)
  /\ IF _get_entry(storage, id) = None
     THEN /\ balance' = FAdd(balance, BalanceChange(payload.entry_type, payload.amount))
          /\ storage' = do_insert(storage, NewEntry(id, payload, now))
          /\ result' = Ok(NewEntry(id, payload, now))
          /\ UNCHANGED <<idCounter, now>>
     ELSE IF UpdateInsufficient(NewBalance(balance, storage[id], payload))
     THEN /\ result' = Err("InsufficientFunds")
          /\ UNCHANGED <<ledger, now>>
     ELSE /\ balance' = NewBalance(balance, storage[id], payload)
          /\ storage' = do_insert(storage, UpdatedEntry(storage[id], payload, now))
          /\ result' = Ok(UpdatedEntry(storage[id], payload, now))
          /\ UNCHANGED <<idCounter, now>>
  /\ writes' = IF result'.status = "Ok" THEN update_entry_writes ELSE <<>>

\* slip: the entry is written back before the funds test
update_entry_early_write(id, payload) ==
  /\ lastOp' = Request("update_entry", <<id, payload>>)
  /\ IF _get_entry(storage, id) = None
     THEN /\ result' = NotFound
          /\ UNCHANGED <<ledger, now>>
     ELSE IF UpdateInsufficient(NewBalance(balance, storage[id], payload))
     THEN /\ result' = Err("InsufficientFunds")
          /\ storage' = do_insert(storage, UpdatedEntry(storage[id], payload, now))
          /\ UNCHANGED <<idCounter, balance, now>>
     ELSE /\ balance' = NewBalance(balance, storage[id], payload)
          /\ storage' = do_insert(storage, UpdatedEntry(storage[id], payload, now))
          /\ result' = Ok(UpdatedEntry(storage[id], payload, now))
          /\ UNCHANGED <<idCounter, now>>
  /\ writes' = IF result'.status = "Ok" THEN update_entry_writes ELSE <<>>

update_entry(id, payload) ==
  /\ lastOp' = Request("update_entry", <<id, payload>>)
  /\ IF _get_entry(storage, id) = None
     THEN /\ result' = NotFound
          /\ UNCHANGED <<ledger, now>>
     ELSE IF UpdateInsufficient(NewBalance(balance, storage[id], payload))
     THEN /\ result' = Err("InsufficientFunds")
          /\ UNCHANGED <<ledger, now>>
     ELSE /\ balance' = NewBalance(balance, storage[id], payload)
          /\ storage' = do_insert(storage, UpdatedEntry(storage[id], payload, now))
          /\ result' = Ok(UpdatedEntry(storage[id], payload, now))
          /\ UNCHANGED <<idCounter, now>>
  /\ writes' = IF result'.status = "Ok" THEN update_entry_writes ELSE <<>>

delete_entry(id) ==
  /\ lastOp' = Request("delete_entry", <<id>>)
  /\ IF _get_entry(storage, id) = None
     THEN /\ result' = NotFound
          /\ UNCHANGED <<ledger, now>>
     ELSE /\ storage' = Remove(storage, id)
          /\ balance' = FAdd(balance, ReverseChange(storage[id]))
          /\ result' = Ok(storage[id])
          /\ UNCHANGED <<idCounter, now>>
  /\ writes' = IF result'.status = "Ok" THEN delete_entry_writes ELSE <<>>

\* slip: the lookup takes the entry out of the map (remove for get)
get_entry_take(id) ==
  /\ lastOp' = Request("get_entry", <<id>>)
  /\ result' = get_entry_result(storage, id)
  /\ storage' = Remove(storage, id)
  /\ UNCHANGED <<idCounter, balance, now>>
  /\ writes' = <<>>

get_entry(id) ==
  /\ lastOp' = Request("get_entry", <<id>>)
  /\ result' = get_entry_result(storage, id)
  /\ UNCHANGED <<ledger, now>>
  /\ writes' = <<>>

get_current_balance ==
  /\ lastOp' = Request("get_current_balance", <<>>)
  /\ result' = Value(balance)
  /\ UNCHANGED <<ledger, now>>
  /\ writes' = <<>>

get_entries_by_date_range(start_date, end_date) ==
  /\ lastOp' = Request("get_entries_by_date_range", <<start_date, end_date>>)
  /\ result' = Value(Scan(storage, DOMAIN storage, start_date, end_date))
  /\ UNCHANGED <<ledger, now>>
  /\ writes' = <<>>

\* the canister clock moves on between two messages
Tick ==
  /\ now < MaxTime
  /\ now' = now + 1
  /\ UNCHANGED <<ledger, lastOp, result, writes>>

\* requests with every kind of amount, all in one tick of the clock
Next ==
  \/ \E payload \in EntryPayload : add_entry(payload)
  \/ \E id \in Ids, payload \in EntryPayload : update_entry(id, payload)
  \/ \E id \in Ids : delete_entry(id)

Spec == Init /\ [][Next]_vars

\* requests with both texts, spread over the clock
NextClock ==
  \/ \E payload \in ClockPayload : add_entry(payload)
  \/ \E id \in Ids, payload \in ClockPayload : update_entry(id, payload)
  \/ \E id \in Ids : delete_entry(id)
  \/ \E id \in Ids : get_entry(id)
  \/ get_current_balance
  \/ \E start_date \in Times, end_date \in Times :
        get_entries_by_date_range(start_date, end_date)
  \/ Tick

SpecClock == Init /\ [][NextClock]_vars

\* requests with the amounts of the worked example
NextScenario ==
  \/ \E payload \in ScenarioPayload : add_entry(payload)
  \/ \E id \in Ids, payload \in ScenarioPayload : update_entry(id, payload)
  \/ \E id \in Ids : delete_entry(id)

SpecScenario == Init /\ [][NextScenario]_vars

\* requests with every kind of amount, delete_entry left out
NextNoDelete ==
  \/ \E payload \in EntryPayload : add_entry(payload)
  \/ \E id \in Ids, payload \in EntryPayload : update_entry(id, payload)

SpecNoDelete == Init /\ [][NextNoDelete]_vars

(* ------------------------- claims: definitions ------------------------- *)
\* +amount of a Credit, -amount of a Debit
Signed(e) == IF e.entry_type = "Credit" THEN e.amount ELSE FNeg(e.amount)

RECURSIVE SumSigned(_, _)
\* the f64 sum of the signed amounts of the entries with ids in S
SumSigned(s, S) ==
  IF S = {} THEN Zero
  ELSE LET k == CHOOSE x \in S : TRUE
       IN FAdd(Signed(s[k]), SumSigned(s, S \ {k}))

\* the payload of the add_entry request just answered
AddArg == lastOp.args[1]
\* the id of the update_entry or delete_entry request just answered
IdArg == lastOp.args[1]
\* the payload of the update_entry request just answered
UpdArg == lastOp.args[2]

(* C1: in every reachable state the stored balance equals the sum of the   *)
(* signed amounts of the stored entries (NaN counted as equal to NaN).     *)
C1_BalanceIsSum == balance = SumSigned(storage, DOMAIN storage)

(* C2: in every reachable state the balance is not below zero.             *)
C2_BalanceNeverBelowZero == ~FLt(balance, Zero)

(* C3: a successful add_entry returns the old counter value as the id, an  *)
(* id no stored entry carries, and advances the counter by exactly 1;      *)
(* every other request leaves the counter alone.                           *)
C3_IdCounter ==
  [][ IF lastOp'.op = "add_entry" /\ result'.status = "Ok"
      THEN /\ idCounter' = idCounter + 1
           /\ result'.val[1].id = idCounter
           /\ result'.val[1].id \notin DOMAIN storage
           /\ \A k \in DOMAIN storage : k < result'.val[1].id
      ELSE idCounter' = idCounter ]_vars

\* the second id was issued after the entry with the first id was deleted
C3_Witness ==
  /\ lastOp.op = "add_entry"
  /\ result.status = "Ok"
  /\ result.val[1].id = 1
  /\ idCounter = 2
  /\ 0 \notin DOMAIN storage

(* C4: add_entry with amount <= 0 returns InvalidAmount and leaves the     *)
(* balance, the store and the id counter as they were.                     *)
C4_InvalidAmount ==
  [][ (lastOp'.op = "add_entry" /\ FLe(lastOp'.args[1].amount, Zero))
      => (result' = Err("InvalidAmount") /\ UNCHANGED ledger) ]_vars

\* a non-positive amount was refused on a ledger that already holds entries
C4_Witness ==
  /\ lastOp.op = "add_entry"
  /\ FLe(AddArg.amount, Zero)
  /\ result = Err("InvalidAmount")
  /\ storage # <<>>
  /\ FLt(Zero, balance)

(* C5: add_entry of a Debit with amount > 0 returns InsufficientFunds      *)
(* exactly when balance < amount, an amount equal to the balance is        *)
(* accepted and brings the balance to 0, and a refusal changes nothing.    *)
C5_DebitFunds ==
  [][ (lastOp'.op = "add_entry"
       /\ lastOp'.args[1].entry_type = "Debit"
       /\ FLt(Zero, lastOp'.args[1].amount))
      => /\ (result' = Err("InsufficientFunds")) <=> FLt(balance, lastOp'.args[1].amount)
         /\ (result' = Err("InsufficientFunds")) => UNCHANGED ledger
         /\ (lastOp'.args[1].amount = balance)
              => (result'.status = "Ok" /\ balance' = Zero) ]_vars

(* C6: update_entry and delete_entry on an id that is not a key of the     *)
(* store return NotFound and leave balance, store and id counter alone.    *)
C6_NotFound ==
  [][ (lastOp'.op \in {"update_entry", "delete_entry"}
       /\ lastOp'.args[1] \notin DOMAIN storage)
      => (result' = Err("NotFound") /\ UNCHANGED ledger) ]_vars

\* NotFound for an id that was issued and has since been deleted
C6_Witness ==
  /\ lastOp.op \in {"update_entry", "delete_entry"}
  /\ result = Err("NotFound")
  /\ IdArg < idCounter
  /\ IdArg \notin DOMAIN storage
  /\ storage # <<>>

(* C7: an update_entry refused with InsufficientFunds modifies neither the *)
(* balance nor any stored entry.                                           *)
C7_UpdateRejectedFrame ==
  [][ (lastOp'.op = "update_entry" /\ result' = Err("InsufficientFunds"))
      => UNCHANGED <<balance, storage>> ]_vars

\* an update of a stored entry was refused for lack of funds
C7_Witness ==
  /\ lastOp.op = "update_entry"
  /\ result = Err("InsufficientFunds")
  /\ IdArg \in DOMAIN storage
  /\ storage[IdArg].amount # UpdArg.amount

(* C8: update_entry on a stored id is accepted if and only if the          *)
(* candidate balance + reverse_delta(old) + new_delta(payload) is >= 0,    *)
(* and on acceptance the balance becomes the candidate.                    *)
C8_UpdateAccepted ==
  [][ (lastOp'.op = "update_entry" /\ lastOp'.args[1] \in DOMAIN storage)
      => LET old == storage[lastOp'.args[1]]
             reverse_delta == IF old.entry_type = "Credit"
                              THEN FNeg(old.amount) ELSE old.amount
             candidate == FAdd(FAdd(balance, reverse_delta), Signed(lastOp'.args[2]))
         IN /\ (result'.status = "Ok") <=> FLe(Zero, candidate)
            /\ (result'.status = "Ok") => balance' = candidate ]_vars

(* C9: delete_entry on a stored id never rejects: it returns the entry as  *)
(* stored, takes a Credit's amount off the balance or adds a Debit's       *)
(* amount back, removes that id and leaves every other entry unchanged.    *)
C9_Delete ==
  [][ (lastOp'.op = "delete_entry" /\ lastOp'.args[1] \in DOMAIN storage)
      => LET id == lastOp'.args[1]
             old == storage[id]
         IN /\ result' = Ok(old)
            /\ balance' = IF old.entry_type = "Credit"
                          THEN FAdd(balance, FNeg(old.amount))
                          ELSE FAdd(balance, old.amount)
            /\ _get_entry(storage', id) = None
            /\ DOMAIN storage' = (DOMAIN storage) \ {id}
            /\ \A k \in DOMAIN storage' : storage'[k] = storage[k] ]_vars

\* a delete was accepted although it left a negative balance
C9_Witness ==
  /\ lastOp.op = "delete_entry"
  /\ result.status = "Ok"
  /\ result.val[1].entry_type = "Credit"
  /\ FLt(balance, Zero)
  /\ storage # <<>>

(* C10: every stored entry has amount > 0.                                 *)
C10_AmountsPositive == \A k \in DOMAIN storage : FLt(Zero, storage[k].amount)

\* the (type, amount) pairs of the stored entries
Shape(s) == { <<s[k].entry_type, s[k].amount>> : k \in DOMAIN s }

\* the store holds exactly one entry per pair of P
Holds(s, P) == Shape(s) = P /\ Cardinality(DOMAIN s) = Cardinality(P)

\* the request just answered, as it will be in the next state
IsAdd(ty, n) ==
  /\ lastOp'.op = "add_entry"
  /\ lastOp'.args[1].entry_type = ty
  /\ lastOp'.args[1].amount = Fin(n)

(* C11: from a fresh ledger, add Credit 100 gives balance 100; add Debit   *)
(* 30 gives 70; add Debit 1000 is refused with InsufficientFunds and the   *)
(* balance stays 70; updating the Debit-30 entry to Debit 50 gives 50;     *)
(* deleting the Credit-100 entry is accepted and gives -50.                *)
C11_Scenario ==
  [][ /\ (balance = Zero /\ storage = <<>> /\ IsAdd("Credit", 100))
         => /\ result'.status = "Ok"
            /\ balance' = Fin(100)
            /\ Holds(storage', {<<"Credit", Fin(100)>>})
      /\ (balance = Fin(100) /\ Holds(storage, {<<"Credit", Fin(100)>>})
          /\ IsAdd("Debit", 30))
         => /\ result'.status = "Ok"
            /\ balance' = Fin(70)
            /\ Holds(storage', {<<"Credit", Fin(100)>>, <<"Debit", Fin(30)>>})
      /\ (balance = Fin(70)
          /\ Holds(storage, {<<"Credit", Fin(100)>>, <<"Debit", Fin(30)>>})
          /\ IsAdd("Debit", 1000))
         => /\ result' = Err("InsufficientFunds")
            /\ balance' = Fin(70)
            /\ storage' = storage
      /\ (balance = Fin(70)
          /\ Holds(storage, {<<"Credit", Fin(100)>>, <<"Debit", Fin(30)>>})
          /\ lastOp'.op = "update_entry"
          /\ lastOp'.args[1] \in DOMAIN storage
          /\ storage[lastOp'.args[1]].entry_type = "Debit"
          /\ lastOp'.args[2].entry_type = "Debit"
          /\ lastOp'.args[2].amount = Fin(50))
         => /\ result'.status = "Ok"
            /\ balance' = Fin(50)
            /\ Holds(storage', {<<"Credit", Fin(100)>>, <<"Debit", Fin(50)>>})
      /\ (balance = Fin(50)
          /\ Holds(storage, {<<"Credit", Fin(100)>>, <<"Debit", Fin(50)>>})
          /\ lastOp'.op = "delete_entry"
          /\ lastOp'.args[1] \in DOMAIN storage
          /\ storage[lastOp'.args[1]].entry_type = "Credit")
         => /\ result'.status = "Ok"
            /\ balance' = Fin(-50)
            /\ Holds(storage', {<<"Debit", Fin(50)>>}) ]_vars

\* the end of the scenario: the Credit-100 entry was deleted, leaving the
\* updated Debit-50 entry and a balance of -50
C11_Witness ==
  /\ lastOp.op = "delete_entry"
  /\ result.status = "Ok"
  /\ result.val[1].entry_type = "Credit"
  /\ result.val[1].amount = Fin(100)
  /\ balance = Fin(-50)
  /\ Holds(storage, {<<"Debit", Fin(50)>>})
  /\ \A k \in DOMAIN storage : storage[k].updated_at # None

\* a successful add_entry happens in this step
AddAccepted == lastOp'.op = "add_entry" /\ result'.status = "Ok"

(* C12 (as stated): on a fresh ledger the first successful add_entry       *)
(* returns id 1 and the second returns id 2.                               *)
C12_IdsFromOne ==
  [][ AddAccepted
      => /\ idCounter = 0 => result'.val[1].id = 1
         /\ idCounter = 1 => result'.val[1].id = 2 ]_vars

(* C12 (amended): on a fresh ledger, whose counter starts at 0, the first  *)
(* successful add_entry returns id 0 and the second returns id 1.          *)
C12_IdsFromZero ==
  [][ AddAccepted
      => /\ idCounter = 0 => (result'.val[1].id = 0 /\ 0 \in DOMAIN storage')
         /\ idCounter = 1 => (result'.val[1].id = 1 /\ 1 \in DOMAIN storage') ]_vars

\* two adds have succeeded and both entries are stored under ids 0 and 1
C12_Witness ==
  /\ lastOp.op = "add_entry"
  /\ result.status = "Ok"
  /\ result.val[1].id = 1
  /\ DOMAIN storage = {0, 1}
  /\ storage[0].id = 0
  /\ storage[1].id = 1

(* C13: after a successful add_entry with result r, get_entry(r.id)        *)
(* returns an entry equal to r in every field.                             *)
C13_RoundTrip ==
  (lastOp.op = "add_entry" /\ result.status = "Ok")
    => get_entry_result(storage, result.val[1].id) = Ok(result.val[1])

\* an entry with a receipt and an approver has just been added
C13_Witness ==
  /\ lastOp.op = "add_entry"
  /\ result.status = "Ok"
  /\ result.val[1].receipt_url = Some("r")
  /\ result.val[1].approved_by = Some("boss")
  /\ result.val[1].updated_at = None
  /\ result.val[1].created_at = 1
  /\ result.val[1].id = 1

\* the keys of the entries dated within [a, b]
DatedWithin(a, b) ==
  { k \in DOMAIN storage : a <= storage[k].date /\ storage[k].date <= b }

(* C14: get_entries_by_date_range(start, end) returns exactly the stored   *)
(* entries with start <= date <= end, each once, and never an error; it    *)
(* returns the empty sequence when start > end.                            *)
C14_DateRange ==
  lastOp.op = "get_entries_by_date_range"
    => LET a == lastOp.args[1]
           b == lastOp.args[2]
           out == result.val[1]
       IN /\ result.status = "Value"
          /\ { out[i] : i \in 1..Len(out) } = { storage[k] : k \in DatedWithin(a, b) }
          /\ Len(out) = Cardinality(DatedWithin(a, b))
          /\ a > b => out = <<>>

\* a query for the last tick returned one of two stored entries
C14_Witness ==
  /\ lastOp.op = "get_entries_by_date_range"
  /\ lastOp.args = <<1, 1>>
  /\ Len(result.val[1]) = 1
  /\ Cardinality(DOMAIN storage) = 2
  /\ \E k \in DOMAIN storage : storage[k].date = 0

\* the query methods
Queries == {"get_entry", "get_current_balance", "get_entries_by_date_range"}

(* C16: get_entry, get_current_balance and get_entries_by_date_range leave *)
(* the balance, the store and the id counter unchanged, and                *)
(* get_current_balance returns the stored balance, so two reads with no    *)
(* mutation in between return the same value.                              *)
C16_QueriesFrame ==
  [][ /\ lastOp'.op \in Queries => UNCHANGED ledger
      /\ lastOp'.op = "get_current_balance"
           => (result' = Value(balance) /\ result' = Value(balance')) ]_vars

\* the balance of a ledger that holds entries has been read
C16_Witness ==
  /\ lastOp.op = "get_current_balance"
  /\ result = Value(Fin(1))
  /\ storage # <<>>

\* region a occurs in the sequence w, and before every occurrence of b
Before(a, b, w) ==
  \E i \in 1..Len(w) : w[i] = a /\ \A j \in 1..Len(w) : w[j] = b => i < j

\* the last request was a mutating one and was accepted
MutationAccepted ==
  lastOp.op \in {"add_entry", "update_entry", "delete_entry"} /\ result.status = "Ok"

C18_UpdateFrame ==
  [][ (lastOp'.op = "update_entry" /\ result'.status = "Ok" /\ now' = now)
      => LET id == lastOp'.args[1]
             p == lastOp'.args[2]
         IN /\ id \in DOMAIN storage
            /\ storage'[id].description = p.description
            /\ storage'[id].amount = p.amount
            /\ storage'[id].entry_type = p.entry_type
            /\ storage'[id].category = p.category
            /\ storage'[id].receipt_url = p.receipt_url
            /\ storage'[id].approved_by = p.approved_by
            /\ storage'[id].updated_at = Some(now)
            /\ storage'[id].id = storage[id].id
            /\ storage'[id].date = storage[id].date
            /\ storage'[id].created_at = storage[id].created_at
            /\ DOMAIN storage' = DOMAIN storage
            /\ \A k \in (DOMAIN storage) \ {id} : storage'[k] = storage[k]
            /\ idCounter' = idCounter
            /\ result' = Ok(storage'[id]) ]_vars

\* an entry created at tick 0 was rewritten at tick 1 next to another entry
C18_Witness ==
  /\ lastOp.op = "update_entry"
  /\ result.status = "Ok"
  /\ lastOp.args[1] \in DOMAIN storage
  /\ storage[lastOp.args[1]].created_at = 0
  /\ storage[lastOp.args[1]].updated_at = Some(1)
  /\ storage[lastOp.args[1]].description = "taxi"
  /\ Cardinality(DOMAIN storage) = 2
  /\ now = 1

(* C19: in every state reachable with add_entry and update_entry requests  *)
(* only (no delete_entry), balance >= 0.                                   *)
C19_NonNegativeWithoutDelete == FLe(Zero, balance)

\* the other wording of C19: a step that takes the balance below zero is a
\* delete_entry of a Credit entry or of an entry with a non-positive amount
C19_FirstNegativeIsDelete ==
  [][ (~FLt(balance, Zero) /\ FLt(balance', Zero))
      => /\ lastOp'.op = "delete_entry"
         /\ result'.status = "Ok"
         /\ \/ result'.val[1].entry_type = "Credit"
            \/ FLe(result'.val[1].amount, Zero) ]_vars

(* C20: an update_entry whose payload has the stored entry's type and      *)
(* amount is accepted if and only if the balance is >= 0, leaves the       *)
(* balance unchanged when accepted and is refused with InsufficientFunds   *)
(* otherwise; any update whose candidate balance is < 0 is refused with    *)
(* InsufficientFunds.                                                      *)
C20_NeutralUpdate ==
  [][ (lastOp'.op = "update_entry" /\ lastOp'.args[1] \in DOMAIN storage)
      => LET old == storage[lastOp'.args[1]]
             p == lastOp'.args[2]
             candidate == FAdd(FAdd(balance, FNeg(Signed(old))), Signed(p))
         IN /\ (p.entry_type = old.entry_type /\ p.amount = old.amount)
                 => /\ (result'.status = "Ok") <=> FLe(Zero, balance)
                    /\ (result'.status = "Ok") => balance' = balance
                    /\ (result'.status # "Ok") => result' = Err("InsufficientFunds")
            /\ FLt(candidate, Zero) => result' = Err("InsufficientFunds") ]_vars

====
